---- MODULE Spec2Model ----
(***************************************************************************)
(* Model of velox/functions/prestosql/Sequence.cpp: the vector function   *)
(* sequence(start, stop [, step]) over bigint, date and timestamp.        *)
(*                                                                         *)
(* Two kinds of behaviour are described.                                   *)
(*   Spec    one call of SequenceFunction<T>::apply on a batch: the sizing *)
(*           pass, the allocation of the element vector and the fill pass, *)
(*           one row (and, inside writeToElements, one slot) per step.     *)
(*   SpecFn  single applications of the pure helpers (getStep followed by  *)
(*           checkArguments, and add) on inputs drawn from bounded sets.   *)
(*                                                                         *)
(* TLC's integers are 32 bits wide, so int64_t is modelled as a signed     *)
(* integer of IntBits bits (two's complement, MinInt64..MaxInt64) and      *)
(* int128_t as the unbounded mathematical integer: what matters in the     *)
(* code is that the second is strictly wider than the first.               *)
(***************************************************************************)
EXTENDS Integers, Sequences, FiniteSets, TLC

\* Width, in bits, of the model's int64_t.
IntBits == 29
\* Largest batch (rows.end()) explored.
MaxRows == 2

kMaxResultEntries == 10000
kMillisInDay == 86400000

RECURSIVE Pow2(_)
Pow2(n) == IF n = 0 THEN 1 ELSE 2 * Pow2(n - 1)

MaxInt64 == Pow2(IntBits - 1) - 1
MinInt64 == -Pow2(IntBits - 1)

Abs(x) == IF x < 0 THEN -x ELSE x

\* C++ integer division truncates toward zero; % takes the dividend's sign.
TruncDiv(a, b) ==
  IF (a >= 0) = (b > 0) THEN Abs(a) \div Abs(b) ELSE -(Abs(a) \div Abs(b))

CRem(a, b) == a - b * TruncDiv(a, b)

InInt64(x) == MinInt64 <= x /\ x <= MaxInt64

\* The value a two's complement machine keeps of a result that left int64_t.
Wrap64(x) == ((x - MinInt64) % Pow2(IntBits)) + MinInt64

(***************************************************************************)
(* Native values.  bigint: an integer.  Date: [days].  Timestamp:          *)
(* [seconds, nanos] with 0 <= nanos < 10^9.                                *)
(***************************************************************************)
Date(d) == [days |-> d]

Timestamp(s, n) == [seconds |-> s, nanos |-> n]

toMillis(ts) == ts.seconds * 1000 + ts.nanos \div 1000000

fromMillis(millis) ==
  IF millis >= 0 \/ CRem(millis, 1000) = 0
  THEN Timestamp(TruncDiv(millis, 1000), CRem(millis, 1000) * 1000000)
  ELSE LET second == TruncDiv(millis, 1000) - 1
           nano == CRem(millis - second * 1000, 1000) * 1000000
       IN Timestamp(second, nano)

toInt64(T, value) ==
  CASE T = "bigint" -> value
    [] T = "date" -> value.days
    [] T = "timestamp" -> toMillis(value)

\* The mathematical sum add() forms; it is signed overflow when it leaves int64_t.
addSum(T, value, steps) == toInt64(T, value) + steps

add(T, value, steps) ==
  CASE T = "bigint" -> Wrap64(value + steps)
    [] T = "date" -> Date(Wrap64(value.days + steps))
    [] T = "timestamp" -> fromMillis(Wrap64(toMillis(value) + steps))

(***************************************************************************)
(* getStep and checkArguments.  A VELOX_USER_CHECK that fails throws; the  *)
(* result records the error kind in err ("none" when nothing is thrown).   *)
(***************************************************************************)
\* The date step divided without the whole-day check.
getStepNoDayCheck(start, stop, hasStepVector, rawStep, isDate) ==
  IF ~hasStepVector
  THEN [err |-> "none", step |-> IF stop >= start THEN 1 ELSE -1]
  ELSE IF ~isDate
  THEN [err |-> "none", step |-> rawStep]
  ELSE [err |-> "none", step |-> TruncDiv(rawStep, kMillisInDay)]

getStep(start, stop, hasStepVector, rawStep, isDate) ==
  IF ~hasStepVector
  THEN [err |-> "none", step |-> IF stop >= start THEN 1 ELSE -1]
  ELSE IF ~isDate
  THEN [err |-> "none", step |-> rawStep]
  ELSE IF CRem(rawStep, kMillisInDay) # 0
  THEN [err |-> "InvalidDateStepUnit", step |-> 0]
  ELSE [err |-> "none", step |-> TruncDiv(rawStep, kMillisInDay)]

\* Off by one: the count without the start element.
sequenceCountNoPlusOne(start, stop, step) == TruncDiv(stop - start, step)

\* int128_t sequenceCount = ((int128_t)stop - (int128_t)start) / step + 1
sequenceCount(start, stop, step) == TruncDiv(stop - start, step) + 1

\* The limit tested with < instead of <=.
checkArgumentsStrictLimit(start, stop, step) ==
  IF step = 0
  THEN [err |-> "ZeroStep", count |-> 0]
  ELSE IF ~(IF step > 0 THEN stop >= start ELSE stop <= start)
  THEN [err |-> "DirectionMismatch", count |-> 0]
  ELSE IF ~(sequenceCount(start, stop, step) < kMaxResultEntries)
  THEN [err |-> "ResultTooLarge", count |-> 0]
  ELSE [err |-> "none", count |-> sequenceCount(start, stop, step)]

\* The direction tested with > and < instead of >= and <=.
checkArgumentsStrictDirection(start, stop, step) ==
  IF step = 0
  THEN [err |-> "ZeroStep", count |-> 0]
  ELSE IF ~(IF step > 0 THEN stop > start ELSE stop < start)
  THEN [err |-> "DirectionMismatch", count |-> 0]
  ELSE IF ~(sequenceCount(start, stop, step) <= kMaxResultEntries)
  THEN [err |-> "ResultTooLarge", count |-> 0]
  ELSE [err |-> "none", count |-> sequenceCount(start, stop, step)]

\* The direction tested before the zero step.
checkArgumentsDirectionFirst(start, stop, step) ==
  IF ~(IF step > 0 THEN stop >= start ELSE stop <= start)
  THEN [err |-> "DirectionMismatch", count |-> 0]
  ELSE IF step = 0
  THEN [err |-> "ZeroStep", count |-> 0]
  ELSE IF ~(sequenceCount(start, stop, step) <= kMaxResultEntries)
  THEN [err |-> "ResultTooLarge", count |-> 0]
  ELSE [err |-> "none", count |-> sequenceCount(start, stop, step)]

checkArguments(start, stop, step) ==
  IF step = 0
  THEN [err |-> "ZeroStep", count |-> 0]
  ELSE IF ~(IF step > 0 THEN stop >= start ELSE stop <= start)
  THEN [err |-> "DirectionMismatch", count |-> 0]
  ELSE IF ~(sequenceCount(start, stop, step) <= kMaxResultEntries)
  THEN [err |-> "ResultTooLarge", count |-> 0]
  ELSE [err |-> "none", count |-> sequenceCount(start, stop, step)]

(***************************************************************************)
(* The inputs of a batch: the signature (element type T, step argument     *)
(* present or not), the selected rows and the three argument vectors.      *)
(***************************************************************************)
signatures ==
  { [T |-> "bigint", hasStep |-> FALSE],
    [T |-> "bigint", hasStep |-> TRUE],
    [T |-> "date", hasStep |-> FALSE],
    [T |-> "date", hasStep |-> TRUE],
    [T |-> "timestamp", hasStep |-> TRUE] }

StartValues(T) ==
  CASE T = "bigint" -> {MinInt64, 1, 4}
    [] T = "date" -> {Date(0), Date(2)}
    [] T = "timestamp" ->
         {Timestamp(0, 0), Timestamp(0, 1500000), Timestamp(-1, 999999999)}

StopValues(T) ==
  CASE T = "bigint" -> {1, 10, MaxInt64}
    [] T = "date" -> {Date(0), Date(2), Date(30000)}
    [] T = "timestamp" ->
         {Timestamp(0, 0), Timestamp(0, 1000000), Timestamp(0, 3000000),
          Timestamp(30, 0)}

\* The step column holds an int64_t: a bigint, or an interval in milliseconds.
StepValues(T) ==
  CASE T = "bigint" -> {-1, 0, 4, MaxInt64}
    [] T = "date" ->
         {-kMillisInDay, 0, kMillisInDay \div 2, kMillisInDay, 2 * kMillisInDay}
    [] T = "timestamp" -> {-1, 0, 2}

RowIds == 0 .. MaxRows - 1

Min(S) == CHOOSE x \in S : \A y \in S : x <= y

Max(S) == CHOOSE x \in S : \A y \in S : x >= y

\* applyToSelectedNoThrow runs its lambda on the selected rows in ascending
\* order: the row it takes next among those it has yet to visit.
NextSelected(rs) == Min(rs)

\* What applyToSelectedNoThrow does with an exception thrown for a row: the
\* error is recorded for that row and the pass goes on with the next row.
setError(errs, row, err) == [errs EXCEPT ![row] = err]

\* allocateSizes and allocateOffsets return zero-filled buffers.
allocateSizes(n) == [r \in 0 .. n - 1 |-> 0]

allocateOffsets(n) == [r \in 0 .. n - 1 |-> 0]

\* SelectivityVector::end(): one past the last selected row.
RowsEnd(rs) == IF rs = {} THEN 0 ELSE Max(rs) + 1

\* Rows outside the selection are never decoded nor read: they hold this value.
Unread(T) ==
  CASE T = "bigint" -> 0
    [] T = "date" -> Date(0)
    [] T = "timestamp" -> Timestamp(0, 0)

VARIABLES
  T,              \* element type of the instantiation SequenceFunction<T>
  hasStep,        \* args.size() == 3, i.e. stepVector != nullptr
  rows,           \* the selected rows
  startVector,    \* decoded arguments, by row
  stopVector,
  stepVector,
  pc,             \* position in apply()
  todo,           \* rows the running applyToSelectedNoThrow has yet to visit
  sized,          \* rows the sizing pass has visited
  rawSizes,
  rawOffsets,
  numElements,
  elements,       \* the element vector (empty until allocated)
  elementsOffset,
  errors,         \* per row, the error applyToSelectedNoThrow recorded
  wr,             \* locals of the running writeToElements
  writes,         \* per element index, how many times it was written
  oob,            \* a write fell outside the element vector
  call            \* SpecFn: one application of a helper

vars ==
  << T, hasStep, rows, startVector, stopVector, stepVector, pc, todo, sized,
     rawSizes, rawOffsets, numElements, elements, elementsOffset, errors, wr,
     writes, oob, call >>

inputs == << T, hasStep, rows, startVector, stopVector, stepVector >>

numRows == RowsEnd(rows)

NoCall == [op |-> "none"]

NoWrite == [row |-> 0, start |-> 0, step |-> 0, i |-> 0, count |-> 0]

\* The vectors over RowIds that hold a value of S on the rows of rs.
Vectors(rs, S, unread) ==
  { f \in [RowIds -> S \cup {unread}] :
      \A r \in RowIds : IF r \in rs THEN f[r] \in S ELSE f[r] = unread }

Init ==
  /\ \E sig \in signatures :
       /\ T = sig.T
       /\ hasStep = sig.hasStep
  /\ rows \in SUBSET RowIds
  /\ startVector \in Vectors(rows, StartValues(T), Unread(T))
  /\ stopVector \in Vectors(rows, StopValues(T), Unread(T))
  /\ stepVector \in Vectors(IF hasStep THEN rows ELSE {}, StepValues(T), 0)
  /\ pc = "size"
  /\ todo = rows
  /\ sized = {}
  /\ rawSizes = allocateSizes(RowsEnd(rows))
  /\ rawOffsets = allocateOffsets(RowsEnd(rows))
  /\ numElements = 0
  /\ elements = << >>
  /\ elementsOffset = 0
  /\ errors = [r \in 0 .. RowsEnd(rows) - 1 |-> "none"]
  /\ wr = NoWrite
  /\ writes = << >>
  /\ oob = FALSE
  /\ call = NoCall

(***************************************************************************)
(* The body of the sizing pass for one row (the first lambda of apply):    *)
(* err is what it throws, size what it stores in rawSizes[row].            *)
(***************************************************************************)
SizingLambda(T_, hasStep_, startV, stopV, stepV, row) ==
  LET start == toInt64(T_, startV[row])
      stop == toInt64(T_, stopV[row])
      st == getStep(start, stop, hasStep_, stepV[row], T_ = "date")
  IN IF st.err # "none"
     THEN [err |-> st.err, size |-> 0]
     ELSE LET c == checkArguments(start, stop, st.step)
          IN [err |-> c.err, size |-> c.count]

\* elements[i] = add(start, step * i): the product, then the sum, in int64_t.
SlotOverflows(T_, start, step, i) ==
  \/ ~InInt64(step * i)
  \/ ~InInt64(addSum(T_, start, Wrap64(step * i)))

SlotValue(T_, start, step, i) == add(T_, start, Wrap64(step * i))

\* SizeRow counting one element for a row whose validation threw.
SizeRowCountsFailed ==
  /\ pc = "size"
  /\ todo # {}
  /\ LET row == NextSelected(todo)
         res == SizingLambda(T, hasStep, startVector, stopVector, stepVector, row)
     IN /\ IF res.err = "none"
           THEN /\ rawSizes' = [rawSizes EXCEPT ![row] = res.size]
                /\ numElements' = numElements + res.size
                /\ errors' = errors
           ELSE /\ errors' = setError(errors, row, res.err)
                /\ rawSizes' = [rawSizes EXCEPT ![row] = 1]
                /\ numElements' = numElements + 1
        /\ todo' = todo \ {row}
        /\ sized' = sized \cup {row}
  /\ UNCHANGED << inputs, pc, rawOffsets, elements, elementsOffset, wr, writes,
                  oob, call >>

SizeRow ==
  /\ pc = "size"
  /\ todo # {}
  /\ LET row == NextSelected(todo)
         res == SizingLambda(T, hasStep, startVector, stopVector, stepVector, row)
     IN /\ IF res.err = "none"
           THEN /\ rawSizes' = [rawSizes EXCEPT ![row] = res.size]
                /\ numElements' = numElements + res.size
                /\ errors' = errors
           ELSE /\ errors' = setError(errors, row, res.err)
                /\ UNCHANGED << rawSizes, numElements >>
        /\ todo' = todo \ {row}
        /\ sized' = sized \cup {row}
  /\ UNCHANGED << inputs, pc, rawOffsets, elements, elementsOffset, wr, writes,
                  oob, call >>

Allocate ==
  /\ pc = "size"
  /\ todo = {}
  /\ elements' = [k \in 0 .. numElements - 1 |-> Unread(T)]
  /\ writes' = [k \in 0 .. numElements - 1 |-> 0]
  /\ elementsOffset' = 0
  /\ todo' = rows
  /\ pc' = "fill"
  /\ UNCHANGED << inputs, sized, rawSizes, rawOffsets, numElements, errors, wr,
                  oob, call >>

FillRow ==
  /\ pc = "fill"
  /\ todo # {}
  /\ LET row == NextSelected(todo)
         sequenceCount_ == rawSizes[row]
         st == getStep(toInt64(T, startVector[row]), toInt64(T, stopVector[row]),
                       hasStep, stepVector[row], T = "date")
     IN IF sequenceCount_ = 0
        THEN /\ todo' = todo \ {row}
             /\ UNCHANGED << pc, rawOffsets, errors, wr >>
        ELSE /\ rawOffsets' = [rawOffsets EXCEPT ![row] = elementsOffset]
             /\ IF st.err # "none"
                THEN /\ errors' = setError(errors, row, st.err)
                     /\ todo' = todo \ {row}
                     /\ UNCHANGED << pc, wr >>
                ELSE /\ wr' = [row |-> row, start |-> startVector[row],
                               step |-> st.step, i |-> 0,
                               count |-> sequenceCount_]
                     /\ pc' = "write"
                     /\ UNCHANGED << errors, todo >>
  /\ UNCHANGED << inputs, sized, rawSizes, numElements, elements,
                  elementsOffset, writes, oob, call >>

\* WriteSlot writing at elements[i] instead of (elements + elementsOffset)[i].
WriteSlotNoOffset ==
  /\ pc = "write"
  /\ wr.i < wr.count
  /\ LET k == wr.i
     IN IF k \in DOMAIN elements
        THEN /\ elements' =
                  [elements EXCEPT ![k] = SlotValue(T, wr.start, wr.step, wr.i)]
             /\ writes' = [writes EXCEPT ![k] = @ + 1]
             /\ oob' = oob
        ELSE /\ oob' = TRUE
             /\ UNCHANGED << elements, writes >>
  /\ wr' = [wr EXCEPT !.i = @ + 1]
  /\ UNCHANGED << inputs, pc, todo, sized, rawSizes, rawOffsets, numElements,
                  elementsOffset, errors, call >>

\* One iteration of the loop of writeToElements.
WriteSlot ==
  /\ pc = "write"
  /\ wr.i < wr.count
  /\ LET k == elementsOffset + wr.i
     IN IF k \in DOMAIN elements
        THEN /\ elements' =
                  [elements EXCEPT ![k] = SlotValue(T, wr.start, wr.step, wr.i)]
             /\ writes' = [writes EXCEPT ![k] = @ + 1]
             /\ oob' = oob
        ELSE /\ oob' = TRUE
             /\ UNCHANGED << elements, writes >>
  /\ wr' = [wr EXCEPT !.i = @ + 1]
  /\ UNCHANGED << inputs, pc, todo, sized, rawSizes, rawOffsets, numElements,
                  elementsOffset, errors, call >>

\* Signed overflow is undefined: a build that traps on it stops here; the
\* others go on (WriteSlot) with the two's complement result.
TrapOverflow ==
  /\ pc = "write"
  /\ wr.i < wr.count
  /\ SlotOverflows(T, wr.start, wr.step, wr.i)
  /\ pc' = "trap"
  /\ UNCHANGED << inputs, todo, sized, rawSizes, rawOffsets, numElements,
                  elements, elementsOffset, errors, wr, writes, oob, call >>

\* EndRow without the advance of elementsOffset.
EndRowKeepsOffset ==
  /\ pc = "write"
  /\ wr.i >= wr.count
  /\ todo' = todo \ {wr.row}
  /\ pc' = "fill"
  /\ UNCHANGED << inputs, sized, rawSizes, rawOffsets, numElements, elements,
                  elementsOffset, errors, wr, writes, oob, call >>

\* writeToElements returns; elementsOffset += rawSizes[row].
EndRow ==
  /\ pc = "write"
  /\ wr.i >= wr.count
  /\ elementsOffset' = elementsOffset + rawSizes[wr.row]
  /\ todo' = todo \ {wr.row}
  /\ pc' = "fill"
  /\ UNCHANGED << inputs, sized, rawSizes, rawOffsets, numElements, elements,
                  errors, wr, writes, oob, call >>

\* The ArrayVector (numRows, offsets, sizes, elements) becomes the result.
Finish ==
  /\ pc = "fill"
  /\ todo = {}
  /\ pc' = "done"
  /\ UNCHANGED << inputs, todo, sized, rawSizes, rawOffsets, numElements,
                  elements, elementsOffset, errors, wr, writes, oob, call >>

Next ==
  \/ SizeRow
  \/ Allocate
  \/ FillRow
  \/ WriteSlot
  \/ TrapOverflow
  \/ EndRow
  \/ Finish

Spec == Init /\ [][Next]_vars

(***************************************************************************)
(* apply() as a function of its inputs: the result vector it builds when   *)
(* no build traps.  offsetBefore[r] is elementsOffset when the fill pass   *)
(* reaches row r; a row that threw in the sizing pass keeps size 0.        *)
(***************************************************************************)
RunApply(T_, hasStep_, mask, startV, stopV, stepV) ==
  LET n == RowsEnd(mask)
      sizes == [r \in 0 .. n - 1 |->
                  IF r \in mask
                  THEN SizingLambda(T_, hasStep_, startV, stopV, stepV, r).size
                  ELSE 0]
      offsetBefore[r \in 0 .. n] ==
        IF r = 0 THEN 0 ELSE offsetBefore[r - 1] + sizes[r - 1]
      owner(k) ==
        CHOOSE r \in 0 .. n - 1 :
          sizes[r] > 0 /\ offsetBefore[r] <= k /\ k < offsetBefore[r] + sizes[r]
      step(r) == getStep(toInt64(T_, startV[r]), toInt64(T_, stopV[r]),
                         hasStep_, stepV[r], T_ = "date").step
  IN [ sizes |-> sizes,
       offsets |-> [r \in 0 .. n - 1 |->
                      IF sizes[r] > 0 THEN offsetBefore[r] ELSE 0],
       numElements |-> offsetBefore[n],
       elements |-> [k \in 0 .. offsetBefore[n] - 1 |->
                       SlotValue(T_, startV[owner(k)], step(owner(k)),
                                 k - offsetBefore[owner(k)])] ]

(***************************************************************************)
(* SpecFn: the helpers applied once to inputs drawn from bounded sets.     *)
(* A "size" call is getStep followed by checkArguments (the body of the    *)
(* sizing pass on already converted values); an "add" call is add().       *)
(***************************************************************************)
FnStarts == {MinInt64, -5, 0, 1, 10000, MaxInt64}

FnStops == {MinInt64, -5, 0, 1, 10, 9999, 10000, 10001, 19999, 20001, MaxInt64}

FnSteps ==
  {MinInt64, -kMillisInDay, -2, -1, 0, 1, 2, kMillisInDay \div 2, kMillisInDay,
   2 * kMillisInDay, MaxInt64}

FnValues(T_) ==
  CASE T_ = "bigint" -> {MinInt64, -7, 0, 42, MaxInt64}
    [] T_ = "date" -> {Date(-365), Date(0), Date(18262)}
    [] T_ = "timestamp" ->
         { Timestamp(s, n) :
             s \in {-2, -1, 0, 1},
             n \in {0, 1, 999999, 1000000, 1500000, 999000000, 999999999} }

FnAddSteps == {-1000, -1, 0, 1, 1000}

SizeCalls ==
  { [op |-> "size", start |-> a, stop |-> b, hasStep |-> h, rawStep |-> s,
     isDate |-> d, done |-> FALSE, stepErr |-> "none", step |-> 0,
     err |-> "none", count |-> 0] :
      a \in FnStarts, b \in FnStops, h \in BOOLEAN, s \in FnSteps,
      d \in BOOLEAN }

AddCalls ==
  UNION { { [op |-> "add", T |-> t, value |-> v, steps |-> n, done |-> FALSE,
             result |-> v] : v \in FnValues(t), n \in FnAddSteps } :
          t \in {"bigint", "date", "timestamp"} }

InitFn ==
  /\ T = "bigint"
  /\ hasStep = FALSE
  /\ rows = {}
  /\ startVector = [r \in RowIds |-> 0]
  /\ stopVector = [r \in RowIds |-> 0]
  /\ stepVector = [r \in RowIds |-> 0]
  /\ pc = "idle"
  /\ todo = {}
  /\ sized = {}
  /\ rawSizes = << >>
  /\ rawOffsets = << >>
  /\ numElements = 0
  /\ elements = << >>
  /\ elementsOffset = 0
  /\ errors = << >>
  /\ wr = NoWrite
  /\ writes = << >>
  /\ oob = FALSE
  /\ call \in SizeCalls \cup AddCalls

batch ==
  << T, hasStep, rows, startVector, stopVector, stepVector, pc, todo, sized,
     rawSizes, rawOffsets, numElements, elements, elementsOffset, errors, wr,
     writes, oob >>

CallSize ==
  /\ call.op = "size"
  /\ ~call.done
  /\ LET st == getStep(call.start, call.stop, call.hasStep, call.rawStep,
                       call.isDate)
         c == checkArguments(call.start, call.stop, st.step)
     IN call' = IF st.err # "none"
                THEN [call EXCEPT !.done = TRUE, !.stepErr = st.err,
                                  !.err = st.err]
                ELSE [call EXCEPT !.done = TRUE, !.step = st.step,
                                  !.err = c.err, !.count = c.count]
  /\ UNCHANGED batch

CallAdd ==
  /\ call.op = "add"
  /\ ~call.done
  /\ call' = [call EXCEPT !.done = TRUE,
                          !.result = add(call.T, call.value, call.steps)]
  /\ UNCHANGED batch

NextFn ==
  \/ CallSize
  \/ CallAdd

SpecFn == InitFn /\ [][NextFn]_vars

\* Both kinds of behaviour.
SpecAll == (Init \/ InitFn) /\ [][Next \/ NextFn]_vars

(***************************************************************************)
(* Properties.  start, stop and step of a row are the converted values     *)
(* (ordinals) the code computes with.                                      *)
(***************************************************************************)
StartOf(r) == toInt64(T, startVector[r])

StopOf(r) == toInt64(T, stopVector[r])

StepResultOf(r) ==
  getStep(StartOf(r), StopOf(r), hasStep, stepVector[r], T = "date")

StepOf(r) == StepResultOf(r).step

\* The row was selected and the sizing pass raised no error for it.
Passed(r) == r \in rows /\ r \in sized /\ errors[r] = "none"

RECURSIVE SumSizes(_)
\* rawSizes[0] + ... + rawSizes[n - 1]
SumSizes(n) == IF n = 0 THEN 0 ELSE SumSizes(n - 1) + rawSizes[n - 1]

Between(x, a, b) == (a <= x /\ x <= b) \/ (b <= x /\ x <= a)

\* C1: after apply(), every selected row that passed validation has
\* size = (stop - start) / step + 1 (truncating division); its element i, at
\* index offset + i, is start + i * step (for Timestamp and Date in ordinal
\* units, for bigint the value itself); the first element is start and the
\* last lies between start and stop with |last - stop| < |step|.
C1_Sequence ==
  pc = "done" =>
    \A r \in rows :
      Passed(r) =>
        LET n == rawSizes[r]
            elem(i) == elements[rawOffsets[r] + i]
            last == toInt64(T, elem(n - 1))
        IN /\ n = TruncDiv(StopOf(r) - StartOf(r), StepOf(r)) + 1
           /\ n >= 1
           /\ \A i \in 0 .. n - 1 :
                /\ toInt64(T, elem(i)) = StartOf(r) + i * StepOf(r)
                /\ T = "bigint" => elem(i) = startVector[r] + i * StepOf(r)
                /\ T = "date" => elem(i) = Date(startVector[r].days + i * StepOf(r))
           /\ toInt64(T, elem(0)) = StartOf(r)
           /\ Between(last, StartOf(r), StopOf(r))
           /\ Abs(last - StopOf(r)) < Abs(StepOf(r))

\* A finished batch with a row of at least three elements whose step does not
\* land on stop.
C1_Witness ==
  /\ pc = "done"
  /\ \E r \in rows :
       /\ Passed(r)
       /\ rawSizes[r] >= 3
       /\ Abs(StepOf(r)) > 1
       /\ toInt64(T, elements[rawOffsets[r] + rawSizes[r] - 1]) # StopOf(r)

\* C2: after apply(), the element vector has exactly sum(size) elements; a
\* selected row with size > 0 has offset = the sum of the sizes of the rows
\* before it, so the slices are disjoint, in row order, and cover [0, total).
C2_Layout ==
  pc = "done" =>
    /\ DOMAIN elements = 0 .. SumSizes(numRows) - 1
    /\ numElements = SumSizes(numRows)
    /\ \A r \in rows : rawSizes[r] > 0 => rawOffsets[r] = SumSizes(r)
    /\ \A r1, r2 \in rows :
         (r1 < r2 /\ rawSizes[r1] > 0 /\ rawSizes[r2] > 0) =>
           rawOffsets[r1] + rawSizes[r1] <= rawOffsets[r2]
    /\ \A k \in 0 .. SumSizes(numRows) - 1 :
         Cardinality({ r \in rows :
                         /\ rawSizes[r] > 0
                         /\ rawOffsets[r] <= k
                         /\ k < rawOffsets[r] + rawSizes[r] }) = 1
    /\ \A r \in 0 .. numRows - 1 : rawSizes[r] > 0 => r \in rows

\* A finished batch in which a row's slice starts after another row's.
C2_Witness ==
  /\ pc = "done"
  /\ \E r1, r2 \in rows :
       r1 < r2 /\ rawSizes[r1] > 1 /\ rawSizes[r2] > 0 /\ rawOffsets[r2] > 1

\* C3: a row that fails validation ends with size 0 and offset 0 and adds
\* nothing to the element count or the running offset, and every other selected
\* row gets the size, the offset and the elements that apply() gives it on the
\* same batch with the failed row not selected; unselected rows keep size 0
\* and offset 0.
C3_Isolation ==
  pc = "done" =>
    /\ \A f \in rows :
         errors[f] # "none" =>
           LET ref == RunApply(T, hasStep, rows \ {f},
                               startVector, stopVector, stepVector)
           IN /\ rawSizes[f] = 0
              /\ rawOffsets[f] = 0
              /\ numElements = ref.numElements
              /\ elementsOffset = ref.numElements
              /\ elements = ref.elements
              /\ \A r \in rows \ {f} :
                   /\ rawSizes[r] = ref.sizes[r]
                   /\ rawOffsets[r] = ref.offsets[r]
                   /\ errors[r] =
                        SizingLambda(T, hasStep, startVector, stopVector,
                                     stepVector, r).err
    /\ \A r \in 0 .. numRows - 1 :
         r \notin rows => rawSizes[r] = 0 /\ rawOffsets[r] = 0

\* A finished batch where a row failed and a later row produced elements.
C3_Witness ==
  /\ pc = "done"
  /\ \E f, r \in rows : f < r /\ errors[f] # "none" /\ rawSizes[r] > 1

\* step > 0 requires stop >= start, step < 0 requires stop <= start.
Consistent(start, stop, step) ==
  (step > 0 /\ stop >= start) \/ (step < 0 /\ stop <= start)

\* C4: with a non-zero step whose sign agrees with the direction from start to
\* stop, checkArguments succeeds exactly when (stop - start) / step + 1 is at
\* most 10,000 and otherwise fails with ResultTooLarge (10,000 elements
\* succeed, 10,001 fail); a returned count is in 1..10,000, so a row of a
\* finished batch has size 0 only if it was not selected or failed.
C4_Limit ==
  /\ ( /\ call.op = "size"
       /\ call.done
       /\ call.stepErr = "none"
       /\ Consistent(call.start, call.stop, call.step) ) =>
       LET count == TruncDiv(call.stop - call.start, call.step) + 1
       IN /\ (call.err = "none") <=> (count <= 10000)
          /\ call.err \in {"none", "ResultTooLarge"}
          /\ count = 10000 => call.err = "none"
          /\ count = 10001 => call.err = "ResultTooLarge"
          /\ call.err = "none" =>
               call.count = count /\ 1 <= call.count /\ call.count <= 10000
  /\ pc = "done" =>
       \A r \in 0 .. numRows - 1 :
         rawSizes[r] = 0 => (r \notin rows \/ errors[r] # "none")

\* checkArguments returned exactly 10,000.
C4_Witness ==
  /\ call.op = "size"
  /\ call.done
  /\ call.err = "none"
  /\ call.count = 10000
  /\ Abs(call.step) > 1

\* C5: for a row whose step is not zero, validation fails with
\* DirectionMismatch exactly when (step > 0 and stop < start) or (step < 0 and
\* stop > start); with start = stop the row is valid for either sign of step
\* and its result is the one element start.
C5_Direction ==
  pc = "done" =>
    \A r \in rows :
      (StepResultOf(r).err = "none" /\ StepOf(r) # 0) =>
        /\ (errors[r] = "DirectionMismatch") <=>
             \/ (StepOf(r) > 0 /\ StopOf(r) < StartOf(r))
             \/ (StepOf(r) < 0 /\ StopOf(r) > StartOf(r))
        /\ StartOf(r) = StopOf(r) =>
             /\ errors[r] = "none"
             /\ rawSizes[r] = 1
             /\ toInt64(T, elements[rawOffsets[r]]) = StartOf(r)

\* sequence(1, 10, -1) failed, and a row with start = stop and a negative
\* step produced its one element.
C5_Witness ==
  /\ pc = "done"
  /\ T = "bigint"
  /\ hasStep
  /\ \E r \in rows :
       /\ startVector[r] = 1
       /\ stopVector[r] = 10
       /\ stepVector[r] = -1
       /\ errors[r] = "DirectionMismatch"
  /\ \E r \in rows :
       /\ startVector[r] = stopVector[r]
       /\ stepVector[r] < 0
       /\ rawSizes[r] = 1

\* C6: a row whose step resolves to 0 fails with ZeroStep whatever start and
\* stop are, in every element type, whether or not the direction test or the
\* size limit would fail too, and no element is ever written for it.
C6_ZeroStep ==
  \A r \in rows :
    (StepResultOf(r).err = "none" /\ StepOf(r) = 0) =>
      /\ r \in sized => errors[r] = "ZeroStep"
      /\ rawSizes[r] = 0
      /\ ~(pc = "write" /\ wr.row = r)
      /\ pc = "done" => rawOffsets[r] = 0

\* A finished date batch with a zero interval on a row with start > stop.
C6_Witness ==
  /\ pc = "done"
  /\ T = "date"
  /\ \E r \in rows :
       /\ stepVector[r] = 0
       /\ StartOf(r) > StopOf(r)
       /\ errors[r] = "ZeroStep"

\* x is a whole number of days, in milliseconds.
IsDayMultiple(x) ==
  \E q \in -(MaxInt64 \div kMillisInDay) - 1 .. (MaxInt64 \div kMillisInDay) + 1 :
    x = q * kMillisInDay

\* C7: without a step column the step is +1 if stop >= start and -1 otherwise
\* (never 0, never against the direction); with a step column and a type other
\* than Date it is the raw step; for Date the row fails with
\* InvalidDateStepUnit exactly when the raw step is not a whole number of days
\* in milliseconds, before any zero-step or direction test, and otherwise the
\* step is raw step / milliseconds per day.
C7_StepInference ==
  (call.op = "size" /\ call.done) =>
    /\ ~call.hasStep =>
         /\ call.stepErr = "none"
         /\ call.step = IF call.stop >= call.start THEN 1 ELSE -1
         /\ call.err \notin {"ZeroStep", "DirectionMismatch", "InvalidDateStepUnit"}
    /\ (call.hasStep /\ ~call.isDate) =>
         /\ call.stepErr = "none"
         /\ call.step = call.rawStep
    /\ (call.hasStep /\ call.isDate) =>
         /\ (call.stepErr = "InvalidDateStepUnit") <=> ~IsDayMultiple(call.rawStep)
         /\ call.stepErr \in {"none", "InvalidDateStepUnit"}
         /\ call.stepErr = "none" => call.step * kMillisInDay = call.rawStep
         /\ call.stepErr # "none" => call.err = "InvalidDateStepUnit"
    /\ call.err = "InvalidDateStepUnit" => (call.hasStep /\ call.isDate)

\* A 12-hour step on dates with start > stop: the unit error, not the direction.
C7_Witness ==
  /\ call.op = "size"
  /\ call.done
  /\ call.hasStep
  /\ call.isDate
  /\ call.rawStep = 43200000
  /\ call.start > call.stop
  /\ call.err = "InvalidDateStepUnit"

\* C8: add(v, 0) = v for every value v of every element type, Timestamps with
\* a part finer than a millisecond included.
C8_RoundTrip ==
  (call.op = "add" /\ call.done /\ call.steps = 0) => call.result = call.value

\* C9: no arithmetic of a row leaves the signed 64-bit range: stop - start
\* fits the widened type of the count, and for every row that passed
\* validation the product step * i and the sum start + step * i of every slot
\* i < count are representable in int64_t.
C9_NoOverflow ==
  /\ \A r \in rows : Abs(StopOf(r) - StartOf(r)) < Pow2(IntBits)
  /\ (pc = "write" /\ wr.i < wr.count) =>
       /\ InInt64(wr.step * wr.i)
       /\ InInt64(toInt64(T, wr.start) + wr.step * wr.i)

\* C10: nothing is written before every selected row is sized and the element
\* vector of numElements = sum(size) elements exists; the fill pass visits the
\* selected rows in ascending order, enters writeToElements only for rows
\* with size > 0, raises no error, writes the slots of a row in ascending
\* order, writes every index below the running position exactly once and no
\* other index, and ends with elementsOffset = numElements.
C10_TwoPasses ==
  /\ pc = "size" => (elements = << >> /\ writes = << >> /\ sized = rows \ todo)
  /\ pc \in {"fill", "write", "done", "trap"} =>
       /\ sized = rows
       /\ numElements = SumSizes(numRows)
       /\ DOMAIN elements = 0 .. numElements - 1
       /\ \A k \in DOMAIN writes :
            writes[k] =
              IF k < elementsOffset + (IF pc \in {"write", "trap"} THEN wr.i ELSE 0)
              THEN 1 ELSE 0
  /\ pc \in {"write", "trap"} =>
       /\ wr.row \in todo
       /\ rawSizes[wr.row] > 0
       /\ wr.count = rawSizes[wr.row]
       /\ wr.i <= wr.count
       /\ rawOffsets[wr.row] = elementsOffset
       /\ \A r \in rows : (r < wr.row) <=> (r \notin todo)
  /\ \A r \in DOMAIN rawSizes : rawSizes[r] > 0 => errors[r] = "none"
  /\ ~oob
  /\ pc = "done" => elementsOffset = numElements

\* A finished batch: two rows filled, one after the other, and a failed row.
C10_Witness ==
  /\ pc = "done"
  /\ numElements > 2
  /\ \A k \in DOMAIN writes : writes[k] = 1
  /\ \E r1, r2 \in rows : r1 < r2 /\ rawSizes[r1] > 1 /\ rawSizes[r2] > 1

====
